---- MODULE Spec2Model ----
(***************************************************************************)
(* A model of starsearch/phase3Archive.py: the ESOquery client.            *)
(*                                                                         *)
(* The remote archive (astroquery Eso) and the catalogue file are the      *)
(* environment: what a query returns, and whether a remote call fails, is  *)
(* chosen nondeterministically from bounded sets.  What ESOquery does with *)
(* the answers is translated from the Python source.                       *)
(*                                                                         *)
(* Optional Python arguments are modelled as sequences: <<>> is None and   *)
(* <<v>> is the value v.  A date string 'YYYY-MM-DD' is the triple         *)
(* <<Y, M, D>>; the name _remove_planet strips is a sequence of characters. *)
(***************************************************************************)
EXTENDS Integers, Sequences, FiniteSets, TLC

VARIABLES
    pc,               \* position of the method being executed
    method,           \* the public method that was called
    args,             \* its arguments
    queried,          \* the table the last survey query returned, as returned
    result,           \* the value the method returned
    trace,            \* remote calls issued and lines printed, in order
    checkInstruments, \* the dict searchInstruments returned
    i,                \* loop index of the running for-loop (1-based)
    inflight,         \* arguments of the retrieve_data call being served
    file,             \* first column of the data rows of WEBSITE_online.rdb
    stars,            \* the array np.loadtxt returned in readList
    name              \* the argument of _remove_planet

vars == <<pc, method, args, queried, result, trace, checkInstruments, i,
          inflight, file, file, stars, name>>

----------------------------------------------------------------------------
(* Bounds of the model *)

\* most rows a survey query returns
MaxRows == 2
\* most rows the main-catalogue query returns
MaxMain == 2
\* most data rows of the catalogue file
MaxStars == 3
\* longest star+planet name
MaxLen == 4

----------------------------------------------------------------------------
(* Values *)

None == <<>>
Some(v) == <<v>>

\* self.instruments, set in __init__
instruments == <<"FEROS", "UVES", "HARPS", "ESPRESSO">>

Range(s) == {s[k] : k \in DOMAIN s}

\* the default of date in searchStar and searchByDate: Time('1990-01-23')
DefaultDate == <<1990, 1, 23>>

\* the default of SNR in searchStar and searchBySNR
DefaultSNR == 30

\* Python truthiness of an optional number: None and 0 are falsy
TruthyNum(x) == x # None /\ x[1] # 0

\* Python truthiness of an optional string: None and '' are falsy
TruthyStr(x) == x # None /\ x[1] # ""

\* Python truthiness of an optional date string (never '' here)
TruthyDate(x) == x # None

\* astropy Time(...) of a calendar date: Time values compare chronologically.
\* The ordinal below is strictly increasing in (year, month, day).
Time(d) == d[1] * 372 + d[2] * 31 + d[3]

----------------------------------------------------------------------------
(* What the archive can answer *)

\* observation dates the archive holds
RowDates == {<<1989, 12, 31>>, <<1990, 1, 23>>, <<2005, 6, 1>>}
\* signal-to-noise ratios the archive holds
RowSNRs == {25, 30, 35}
\* date thresholds a caller passes
ArgDates == {None, Some(<<1985, 1, 1>>), Some(<<1990, 1, 23>>), Some(<<2005, 6, 1>>)}
\* SNR thresholds a caller passes
ArgSNRs == {None, Some(0), Some(25), Some(30), Some(35)}
\* instrument arguments a caller passes to the search methods
ArgInstruments == {None, Some("HARPS")}
\* instrument arguments a caller passes to searchInstrumentSpectra
SpectraInstruments ==
    {None, Some(""), Some("XSHOOTER")} \cup {Some(j) : j \in Range(instruments)}

RowKinds == [Instrument : Range(instruments), DateObs : RowDates, SNR : RowSNRs]

\* a table: rows in the archive's order, ARCFILE unique per row
MkTable(rows) ==
    [k \in DOMAIN rows |->
        [Instrument |-> rows[k].Instrument, DateObs |-> rows[k].DateObs,
         SNR |-> rows[k].SNR, ARCFILE |-> k]]

TablesOf(kinds) ==
    {MkTable(rows) : rows \in UNION {[1..n -> kinds] : n \in 0..MaxRows}}

\* every table query_surveys can return for the recognised instruments
Tables == TablesOf(RowKinds)

\* every table query_surveys can return for the single survey j
SurveyTables(j) == TablesOf({r \in RowKinds : r.Instrument = j})

----------------------------------------------------------------------------
(* astropy Table and the search methods *)

\* Table.remove_rows(mask): keep_mask = ~mask; every column is col[keep_mask]
RECURSIVE remove_rows(_, _)
remove_rows(tbl, mask) ==
    IF tbl = <<>> THEN <<>>
    ELSE LET rest == remove_rows(Tail(tbl), Tail(mask))
         IN  IF Head(mask) THEN rest ELSE <<Head(tbl)>> \o rest

\* Time(search['Date Obs']) < date
DateMask(tbl, date) == [k \in DOMAIN tbl |-> Time(tbl[k].DateObs) < Time(date)]

\* search['SNR (spectra)'] < SNR
SNRMask(tbl, SNR) == [k \in DOMAIN tbl |-> tbl[k].SNR < SNR]

\* the surveys argument searchStar passes to query_surveys
SurveysArg(instrument) ==
    IF TruthyStr(instrument) THEN <<instrument[1]>> ELSE instruments

\* searchStar, after query_surveys returned tbl
searchStar(tbl, date, SNR) ==
    LET d  == IF ~TruthyDate(date) THEN DefaultDate ELSE date[1]
        s  == IF ~TruthyNum(SNR) THEN DefaultSNR ELSE SNR[1]
        s1 == remove_rows(tbl, DateMask(tbl, d))
    IN  remove_rows(s1, SNRMask(s1, s))

\* searchByDate, after query_surveys returned tbl
searchByDate(tbl, date) ==
    LET d      == IF ~TruthyDate(date) THEN DefaultDate ELSE date[1]
        search == searchStar(tbl, None, None)
    IN  remove_rows(search, DateMask(search, d))

\* searchBySNR, after query_surveys returned tbl
searchBySNR(tbl, SNR) ==
    LET s      == IF ~TruthyNum(SNR) THEN DefaultSNR ELSE SNR[1]
        search == searchStar(tbl, None, None)
    IN  remove_rows(search, SNRMask(search, s))

\* np.sum(searchStar['Instrument'] == j)
CountInstrument(tbl, j) == Cardinality({k \in DOMAIN tbl : tbl[k].Instrument = j})

\* a plausible slip: the single-instrument branch does not return early
searchInstrumentSpectraNoReturn(tbl, instrument) ==
    LET search == searchStar(tbl, None, None)
        keys   == Range(instruments) \cup
                  (IF TruthyStr(instrument) THEN {instrument[1]} ELSE {})
    IN  [j \in keys |-> CountInstrument(search, j)]

\* searchInstrumentSpectra, after query_surveys returned tbl
searchInstrumentSpectra(tbl, instrument) ==
    LET search == searchStar(tbl, None, None)
    IN  IF TruthyStr(instrument)
        THEN [j \in {instrument[1]} |-> CountInstrument(search, j)]
        ELSE [j \in Range(instruments) |-> CountInstrument(search, j)]

----------------------------------------------------------------------------
(* The search methods called on their own *)

Idle ==
    /\ method = "none"
    /\ args = None
    /\ result = None
    /\ trace = <<>>
    /\ checkInstruments = None
    /\ i = 0
    /\ inflight = None
    /\ file = <<>>
    /\ stars = None
    /\ name = None

SearchInit ==
    /\ Idle
    /\ pc = "idle"
    /\ queried \in Tables

\* searchStar(star, instrument, date, SNR) runs to its return
CallSearchStar ==
    /\ pc = "idle"
    /\ \E instrument \in ArgInstruments, date \in ArgDates, SNR \in ArgSNRs :
           /\ args' = [instrument |-> instrument, date |-> date, SNR |-> SNR]
           /\ trace' = <<<<"query_surveys", SurveysArg(instrument)>>>>
           /\ result' = searchStar(queried, date, SNR)
    /\ method' = "searchStar"
    /\ pc' = "returned"
    /\ UNCHANGED <<queried, checkInstruments, i, inflight, file, stars, name>>

\* searchByDate(star, instrument, date) runs to its return
CallSearchByDate ==
    /\ pc = "idle"
    /\ \E instrument \in ArgInstruments, date \in ArgDates :
           /\ args' = [instrument |-> instrument, date |-> date]
           /\ trace' = <<<<"query_surveys", SurveysArg(instrument)>>>>
           /\ result' = searchByDate(queried, date)
    /\ method' = "searchByDate"
    /\ pc' = "returned"
    /\ UNCHANGED <<queried, checkInstruments, i, inflight, file, stars, name>>

\* searchBySNR(star, instrument, SNR) runs to its return
CallSearchBySNR ==
    /\ pc = "idle"
    /\ \E instrument \in ArgInstruments, SNR \in ArgSNRs :
           /\ args' = [instrument |-> instrument, SNR |-> SNR]
           /\ trace' = <<<<"query_surveys", SurveysArg(instrument)>>>>
           /\ result' = searchBySNR(queried, SNR)
    /\ method' = "searchBySNR"
    /\ pc' = "returned"
    /\ UNCHANGED <<queried, checkInstruments, i, inflight, file, stars, name>>

\* searchInstrumentSpectra(star, instrument) runs to its return; its
\* searchStar(star) call queries all the recognised instruments
CallSearchInstrumentSpectra ==
    /\ pc = "idle"
    /\ \E instrument \in SpectraInstruments :
           /\ args' = [instrument |-> instrument]
           /\ result' = searchInstrumentSpectra(queried, instrument)
    /\ trace' = <<<<"query_surveys", SurveysArg(None)>>>>
    /\ method' = "searchInstrumentSpectra"
    /\ pc' = "returned"
    /\ UNCHANGED <<queried, checkInstruments, i, inflight, file, stars, name>>

\* query_surveys raises: nothing catches it, the method returns nothing
SearchQueryRaises ==
    /\ pc = "idle"
    /\ \E m \in {"searchStar", "searchByDate", "searchBySNR",
                 "searchInstrumentSpectra"}, instrument \in ArgInstruments :
           /\ method' = m
           /\ args' = [instrument |-> instrument]
           /\ trace' = <<<<"query_surveys",
                           SurveysArg(IF m = "searchInstrumentSpectra"
                                      THEN None ELSE instrument)>>,
                         <<"raised", "query_surveys">>>>
    /\ pc' = "raised"
    /\ UNCHANGED <<queried, result, checkInstruments, i, inflight, file,
                   stars, name>>

SearchNext ==
    \/ CallSearchStar
    \/ CallSearchByDate
    \/ CallSearchBySNR
    \/ CallSearchInstrumentSpectra
    \/ SearchQueryRaises

SearchSpec == SearchInit /\ [][SearchNext]_vars

----------------------------------------------------------------------------
(* The download methods: getALLdata and get<Instrument>data *)

Methods == {"getALLdata", "getFEROSdata", "getUVESdata", "getHARPSdata",
            "getESPRESSOdata"}

\* download paths a caller passes
ArgPaths == {None, Some(""), Some("spectra")}
\* date thresholds a caller passes to a download method
DataDates == {None, Some(<<2005, 6, 1>>)}
\* SNR thresholds a caller passes to a download method
DataSNRs == {None, Some(35)}
\* the arguments of a download method: a path, and a date or an SNR or neither
DataArgs ==
    {a \in [downloadPath : ArgPaths, date : DataDates, SNR : DataSNRs] :
        a.date = None \/ a.SNR = None}

\* the 'Instrument' column query_main can return
MainColumns == UNION {[1..n -> Range(instruments)] : n \in 0..MaxMain}

\* searchInstruments, after query_main returned a table with this column:
\* np.unique(..., return_counts=True) turned into a dict
searchInstruments(column) ==
    [j \in Range(column) |-> Cardinality({k \in DOMAIN column : column[k] = j})]

\* a plausible slip: getALLdata walks the instruments in another order
FixedSetReversed(m) ==
    CASE m = "getALLdata"      -> <<"ESPRESSO", "HARPS", "UVES", "FEROS">>
      [] m = "getFEROSdata"    -> <<"FEROS">>
      [] m = "getUVESdata"     -> <<"UVES">>
      [] m = "getHARPSdata"    -> <<"HARPS">>
      [] m = "getESPRESSOdata" -> <<"ESPRESSO">>

\* the array each method's for-loop enumerates
FixedSet(m) ==
    CASE m = "getALLdata"      -> instruments
      [] m = "getFEROSdata"    -> <<"FEROS">>
      [] m = "getUVESdata"     -> <<"UVES">>
      [] m = "getHARPSdata"    -> <<"HARPS">>
      [] m = "getESPRESSOdata" -> <<"ESPRESSO">>

\* a plausible slip: the membership test is dropped
PresentAlways(dict, j) == TRUE

\* j in checkInstruments
Present(dict, j) == j \in DOMAIN dict

\* search['ARCFILE']
ARCFILE(tbl) == [k \in DOMAIN tbl |-> tbl[k].ARCFILE]

\* a plausible slip: date and SNR are not passed on to searchStar
searchAndDownloadDefaults(tbl, downloadPath, date, SNR) ==
    LET starARCFILE == ARCFILE(searchStar(tbl, None, None))
    IN  IF TruthyStr(downloadPath)
        THEN [datasets |-> starARCFILE, destination |-> Some(downloadPath[1])]
        ELSE [datasets |-> starARCFILE, destination |-> None]

\* _searchAndDownload, after query_surveys returned tbl: the keyword arguments
\* of its retrieve_data call (destination None: the keyword is not passed)
searchAndDownload(tbl, downloadPath, date, SNR) ==
    LET starARCFILE == ARCFILE(searchStar(tbl, date, SNR))
    IN  IF TruthyStr(downloadPath)
        THEN [datasets |-> starARCFILE, destination |-> Some(downloadPath[1])]
        ELSE [datasets |-> starARCFILE, destination |-> None]

\* the instrument the loop is at
cur == FixedSet(method)[i]

Init ==
    /\ pc = "entry"
    /\ method \in Methods
    /\ args \in DataArgs
    /\ queried = <<>>
    /\ result = None
    /\ trace = <<>>
    /\ checkInstruments = None
    /\ i = 0
    /\ inflight = None
    /\ file = <<>>
    /\ stars = None
    /\ name = None

\* checkInstruments = self.searchInstruments(star)
Discover ==
    /\ pc = "entry"
    /\ \E column \in MainColumns :
           checkInstruments' = Some(searchInstruments(column))
    /\ trace' = Append(trace, <<"query_main">>)
    /\ i' = 1
    /\ pc' = "loop"
    /\ UNCHANGED <<method, args, queried, result, inflight, file, stars, name>>

\* query_main raises
DiscoverRaises ==
    /\ pc = "entry"
    /\ trace' = trace \o <<<<"query_main">>, <<"raised", "query_main">>>>
    /\ pc' = "raised"
    /\ UNCHANGED <<method, args, queried, result, checkInstruments, i,
                   inflight, file, stars, name>>

\* print('*** Searching for {0} results ***')
Progress ==
    /\ pc = "loop"
    /\ i <= Len(FixedSet(method))
    /\ trace' = Append(trace, <<"progress", cur>>)
    /\ pc' = "branch"
    /\ UNCHANGED <<method, args, queried, result, checkInstruments, i,
                   inflight, file, stars, name>>

\* _searchAndDownload: the survey query returns and retrieve_data is called
SearchAndDownload ==
    /\ pc = "branch"
    /\ Present(checkInstruments[1], cur)
    /\ \E tbl \in SurveyTables(cur) :
           /\ queried' = tbl
           /\ inflight' = searchAndDownload(tbl, args.downloadPath, args.date,
                                            args.SNR)
    /\ trace' = trace \o <<<<"query_surveys", cur>>, <<"retrieve_data", cur>>>>
    /\ pc' = "retrieving"
    /\ UNCHANGED <<method, args, result, checkInstruments, i, file, stars, name>>

\* _searchAndDownload: the survey query raises inside searchStar
SurveyQueryRaises ==
    /\ pc = "branch"
    /\ Present(checkInstruments[1], cur)
    /\ trace' = trace \o <<<<"query_surveys", cur>>, <<"raised", "query_surveys">>>>
    /\ pc' = "raised"
    /\ UNCHANGED <<method, args, queried, result, checkInstruments, i,
                   inflight, file, stars, name>>

\* retrieve_data returns; the loop goes on
RetrieveReturns ==
    /\ pc = "retrieving"
    /\ inflight' = None
    /\ queried' = <<>>
    /\ i' = i + 1
    /\ pc' = "loop"
    /\ UNCHANGED <<method, args, result, trace, checkInstruments, file, stars, name>>

\* a plausible slip: a failed retrieval is caught and the loop goes on
RetrieveRaisesSwallowed ==
    /\ pc = "retrieving"
    /\ trace' = Append(trace, <<"raised", "retrieve_data">>)
    /\ inflight' = None
    /\ queried' = <<>>
    /\ i' = i + 1
    /\ pc' = "loop"
    /\ UNCHANGED <<method, args, result, checkInstruments, file, stars, name>>

\* retrieve_data raises
RetrieveRaises ==
    /\ pc = "retrieving"
    /\ trace' = Append(trace, <<"raised", "retrieve_data">>)
    /\ inflight' = None
    /\ queried' = <<>>
    /\ pc' = "raised"
    /\ UNCHANGED <<method, args, result, checkInstruments, i, file, stars, name>>

\* print('No {0} data')
NoData ==
    /\ pc = "branch"
    /\ ~Present(checkInstruments[1], cur)
    /\ trace' = Append(trace, <<"nodata", cur>>)
    /\ i' = i + 1
    /\ pc' = "loop"
    /\ UNCHANGED <<method, args, queried, result, checkInstruments, inflight,
                   file, stars, name>>

\* print('*** Done ***') after the loop
Done ==
    /\ pc = "loop"
    /\ i > Len(FixedSet(method))
    /\ trace' = Append(trace, <<"done">>)
    /\ pc' = "returned"
    /\ UNCHANGED <<method, args, queried, result, checkInstruments, i,
                   inflight, file, stars, name>>

Next ==
    \/ Discover
    \/ DiscoverRaises
    \/ Progress
    \/ SearchAndDownload
    \/ SurveyQueryRaises
    \/ RetrieveReturns
    \/ RetrieveRaises
    \/ NoData
    \/ Done

Spec == Init /\ [][Next]_vars

----------------------------------------------------------------------------
(* readList *)

\* star names a catalogue holds
StarNames == {"51 Peg", "Vega"}

\* the first column of the data rows a catalogue file can hold
Catalogues == UNION {[1..n -> StarNames] : n \in 0..MaxStars}

\* np.loadtxt(..., dtype=str, delimiter='\t', usecols=[0], skiprows=1) with
\* the default ndmin=0: axes of length one are squeezed, so a file with one
\* data row gives a 0-dimensional array
loadtxt(rows) ==
    IF Len(rows) = 1 THEN [ndim |-> 0, data |-> rows]
                     ELSE [ndim |-> 1, data |-> rows]

ListInit ==
    /\ pc = "entry"
    /\ method = "readList"
    /\ args \in [instrument : ArgInstruments, date : DataDates, SNR : DataSNRs]
    /\ file \in Catalogues
    /\ queried = <<>>
    /\ result = None
    /\ trace = <<>>
    /\ checkInstruments = None
    /\ i = 0
    /\ inflight = None
    /\ stars = None
    /\ name = None

\* stars = np.loadtxt('WEBSITE_online.rdb', ...)
LoadTxt ==
    /\ pc = "entry"
    /\ stars' = loadtxt(file)
    /\ i' = 1
    /\ pc' = "loop"
    /\ UNCHANGED <<method, args, queried, result, trace, checkInstruments,
                   inflight, file, name>>

\* enumerate(stars) on a 0-dimensional array: TypeError, outside the try
IterationRaises ==
    /\ pc = "loop"
    /\ stars.ndim = 0
    /\ trace' = Append(trace, <<"raised", "iteration over a 0-d array">>)
    /\ pc' = "raised"
    /\ UNCHANGED <<method, args, queried, result, checkInstruments, i,
                   inflight, file, stars, name>>

\* one pass of the loop body: searchStar returns, print()
StarFound ==
    /\ pc = "loop"
    /\ stars.ndim = 1
    /\ i <= Len(stars.data)
    /\ trace' = trace \o <<<<"banner", stars.data[i]>>,
                           <<"searchStar", stars.data[i]>>, <<"blank">>>>
    /\ i' = i + 1
    /\ UNCHANGED <<pc, method, args, queried, result, checkInstruments,
                   inflight, file, stars, name>>

\* one pass of the loop body: searchStar raises, the bare except prints
StarNotFound ==
    /\ pc = "loop"
    /\ stars.ndim = 1
    /\ i <= Len(stars.data)
    /\ trace' = trace \o <<<<"banner", stars.data[i]>>,
                           <<"searchStar", stars.data[i]>>,
                           <<"raised", "searchStar">>,
                           <<"notfound", stars.data[i]>>>>
    /\ i' = i + 1
    /\ UNCHANGED <<pc, method, args, queried, result, checkInstruments,
                   inflight, file, stars, name>>

\* return stars
ReadListReturns ==
    /\ pc = "loop"
    /\ stars.ndim = 1
    /\ i > Len(stars.data)
    /\ result' = stars.data
    /\ pc' = "returned"
    /\ UNCHANGED <<method, args, queried, trace, checkInstruments, i,
                   inflight, file, stars, name>>

ListNext ==
    \/ LoadTxt
    \/ IterationRaises
    \/ StarFound
    \/ StarNotFound
    \/ ReadListReturns

ListSpec == ListInit /\ [][ListNext]_vars

----------------------------------------------------------------------------
(* _remove_planet *)

\* characters a name is made of: letters that are planet designations and
\* letters that are not, the blank, the dot and digits
Alphabet == {"V", "k", "b", "j", "B", " ", ".", "0", "1", "2"}

Names == UNION {[1..n -> Alphabet] : n \in 0..MaxLen}

\* planets = 'bcdefghijB'
planets == <<"b", "c", "d", "e", "f", "g", "h", "i", "j", "B">>

\* str.endswith
endswith(s, suffix) ==
    /\ Len(s) >= Len(suffix)
    /\ SubSeq(s, Len(s) - Len(suffix) + 1, Len(s)) = suffix

\* the slice s[:-n]
DropLast(s, n) == SubSeq(s, 1, IF Len(s) > n THEN Len(s) - n ELSE 0)

\* _remove_planet
remove_planet(s) ==
    IF \E k \in DOMAIN planets : endswith(s, <<" ", planets[k]>>)
    THEN DropLast(s, 2)
    ELSE IF \/ endswith(s, <<".", "0", "1">>)
            \/ endswith(s, <<".", "0", "2">>)
            \/ endswith(s, <<".", "2">>)
         THEN DropLast(s, 3)
         ELSE s

PlanetInit ==
    /\ pc = "idle"
    /\ method = "_remove_planet"
    /\ name \in Names
    /\ args = None
    /\ queried = <<>>
    /\ result = None
    /\ trace = <<>>
    /\ checkInstruments = None
    /\ i = 0
    /\ inflight = None
    /\ file = <<>>
    /\ stars = None

CallRemovePlanet ==
    /\ pc = "idle"
    /\ result' = remove_planet(name)
    /\ pc' = "returned"
    /\ UNCHANGED <<method, args, queried, trace, checkInstruments, i,
                   inflight, file, stars, name>>

PlanetNext == CallRemovePlanet

PlanetSpec == PlanetInit /\ [][PlanetNext]_vars

----------------------------------------------------------------------------
(* Claims about the search methods (checked under SearchSpec) *)

\* the threshold a caller supplied, or the default when the argument is omitted
Supplied(x, default) == IF x = None THEN default ELSE x[1]

\* the rows of tbl dated d or later whose SNR is at least t, in tbl's order
RowsFrom(tbl, d, t) ==
    SelectSeq(tbl, LAMBDA r : Time(r.DateObs) >= Time(d) /\ r.SNR >= t)

ReturnedFrom(m) == method = m /\ pc = "returned"

\* C1: searchStar returns exactly the rows of the survey query whose
\* observation date is not earlier than the supplied date d and whose SNR is
\* not less than the supplied threshold t; the defaults 1990-01-23 and 30
\* apply only when the argument is omitted.
C1_SearchStarExactFilter ==
    ReturnedFrom("searchStar") =>
        result = RowsFrom(queried, Supplied(args.date, DefaultDate),
                          Supplied(args.SNR, DefaultSNR))

\* C2: searchBySNR returns exactly the rows of the survey query whose SNR is
\* at least the threshold t passed by the caller (30 when omitted); a row with
\* SNR >= t is never missing.
C2_SearchBySNRExact ==
    ReturnedFrom("searchBySNR") =>
        LET t == Supplied(args.SNR, DefaultSNR)
        IN  result = SelectSeq(queried, LAMBDA r : r.SNR >= t)

\* C8: searchByDate(star, instrument, d) returns the same table as
\* searchStar(star, instrument, date=d) with SNR omitted: exactly the rows of
\* the survey query with observation date >= d and SNR >= 30.
C8_SearchByDateAsSearchStar ==
    ReturnedFrom("searchByDate") =>
        /\ result = searchStar(queried, args.date, None)
        /\ result = RowsFrom(queried, Supplied(args.date, DefaultDate), DefaultSNR)

SumCounts(d) == d["FEROS"] + d["UVES"] + d["HARPS"] + d["ESPRESSO"]

\* C3: searchInstrumentSpectra without an instrument returns a map whose keys
\* are exactly FEROS, UVES, HARPS and ESPRESSO, with counts that are not
\* negative and sum to at most the number of rows of the unfiltered survey
\* query; with an instrument it returns a map with that single key.
C3_SpectraKeysAndCounts ==
    ReturnedFrom("searchInstrumentSpectra") =>
        /\ \A j \in DOMAIN result : result[j] >= 0 /\ result[j] <= Len(queried)
        /\ IF TruthyStr(args.instrument)
           THEN DOMAIN result = {args.instrument[1]}
           ELSE /\ DOMAIN result = {"FEROS", "UVES", "HARPS", "ESPRESSO"}
                /\ SumCounts(result) <= Len(queried)

\* C3 witness: a call without an instrument that counts one HARPS row of a
\* survey query that returned two rows, the other one filtered out
C3_Witness ==
    /\ ReturnedFrom("searchInstrumentSpectra")
    /\ args.instrument = None
    /\ DOMAIN result = Range(instruments)
    /\ result["HARPS"] = 1
    /\ SumCounts(result) = 1
    /\ Len(queried) = 2

----------------------------------------------------------------------------
(* Claims about the download methods (checked under Spec) *)

\* how often event e occurs in the trace
Count(e) == Cardinality({k \in DOMAIN trace : trace[k] = e})

Discovered == checkInstruments # None

\* the instruments of the method's fixed set missing from the discovery result
Absent(k) == FixedSet(method)[k] \notin DOMAIN checkInstruments[1]

\* C5 as stated: for every instrument of the fixed set that is absent from
\* the discovery result, a call of a download method issues no survey query
\* and no retrieve_data call for it and emits exactly one 'No <instrument>
\* data' notice for it.
C5_AbsentExactlyOneNotice ==
    (pc \in {"returned", "raised"} /\ Discovered) =>
        \A k \in DOMAIN FixedSet(method) :
            Absent(k) =>
                LET x == FixedSet(method)[k]
                IN  /\ Count(<<"query_surveys", x>>) = 0
                    /\ Count(<<"retrieve_data", x>>) = 0
                    /\ Count(<<"nodata", x>>) = 1

\* C5 amended: no survey query and no retrieve_data call is ever issued for
\* an instrument absent from the discovery result, and exactly one notice is
\* emitted for it once the loop has reached it (a run aborted by an earlier
\* failing remote call emits none for the instruments it never reached).
C5_AbsentNoCallsOneNoticeWhenReached ==
    Discovered =>
        \A k \in DOMAIN FixedSet(method) :
            Absent(k) =>
                LET x == FixedSet(method)[k]
                IN  /\ Count(<<"query_surveys", x>>) = 0
                    /\ Count(<<"retrieve_data", x>>) = 0
                    /\ Count(<<"nodata", x>>) = (IF k < i THEN 1 ELSE 0)

\* C5 witness: getFEROSdata has returned, FEROS was not in the discovery
\* result, one notice was printed and nothing was downloaded
C5_Witness ==
    /\ method = "getFEROSdata"
    /\ pc = "returned"
    /\ "FEROS" \notin DOMAIN checkInstruments[1]
    /\ "HARPS" \in DOMAIN checkInstruments[1]
    /\ Count(<<"nodata", "FEROS">>) = 1
    /\ Count(<<"retrieve_data", "FEROS">>) = 0

\* what a completed loop pass for instrument x leaves in the trace
Pass(dict, x) ==
    IF x \in DOMAIN dict
    THEN <<<<"progress", x>>, <<"query_surveys", x>>, <<"retrieve_data", x>>>>
    ELSE <<<<"progress", x>>, <<"nodata", x>>>>

\* C7: a completed run of getALLdata is: one discovery query first; then
\* FEROS, UVES, HARPS, ESPRESSO in this order, each with its progress
\* notification before its survey query and retrieve_data call (exactly one,
\* when the instrument is in the discovery result) or its no-data notice; and
\* one completion notification at the end.
C7_GetALLdataOrder ==
    (method = "getALLdata" /\ pc = "returned") =>
        LET dict == checkInstruments[1]
        IN  trace = <<<<"query_main">>>> \o Pass(dict, "FEROS")
                      \o Pass(dict, "UVES") \o Pass(dict, "HARPS")
                      \o Pass(dict, "ESPRESSO") \o <<<<"done">>>>

\* C7 witness: a completed getALLdata with instruments present and absent
C7_Witness ==
    /\ method = "getALLdata"
    /\ pc = "returned"
    /\ DOMAIN checkInstruments[1] = {"UVES", "ESPRESSO"}
    /\ Len(trace) = 12

\* the failed call the trace ends with, if the run was aborted by one
EndsWithFailed(call, x) ==
    /\ pc = "raised"
    /\ Len(trace) >= 2
    /\ trace[Len(trace) - 1] = <<call, x>>
    /\ trace[Len(trace)] = <<"raised", call>>

\* C9: every _searchAndDownload whose searchStar succeeds issues exactly one
\* retrieve_data call; its datasets are the ARCFILEs of the rows
\* searchStar(star, instrument, date, SNR) returned, also when there are
\* none, and it carries a destination exactly when a download path was given.
C9_OneRetrievePerSearch ==
    /\ pc = "retrieving" =>
           /\ inflight.datasets =
                  ARCFILE(searchStar(queried, args.date, args.SNR))
           /\ inflight.destination =
                  (IF args.downloadPath \in {None, Some("")}
                   THEN None ELSE args.downloadPath)
           /\ trace[Len(trace)] = <<"retrieve_data", cur>>
    /\ \A x \in Range(instruments) :
           /\ Count(<<"retrieve_data", x>>) <= 1
           /\ Count(<<"retrieve_data", x>>) =
                  Count(<<"query_surveys", x>>)
                  - (IF EndsWithFailed("query_surveys", x) THEN 1 ELSE 0)

\* C9 witness: a retrieve_data call with an empty dataset list and a
\* destination, issued after a survey query that returned rows
C9_Witness ==
    /\ pc = "retrieving"
    /\ Len(queried) = 2
    /\ inflight.datasets = <<>>
    /\ inflight.destination = Some("spectra")

\* the instruments the loop has not reached
NotReached(x) ==
    \E k \in DOMAIN FixedSet(method) : k > i /\ FixedSet(method)[k] = x

\* C10: a failing discovery query, survey query or retrieve_data call is not
\* swallowed: the method ends by raising, nothing is called or printed after
\* the failure, no instrument later in the fixed order is queried or
\* downloaded, and the completion notification is not emitted.
C10_FailurePropagates ==
    (\E k \in DOMAIN trace : trace[k][1] = "raised") =>
        /\ pc = "raised"
        /\ trace[Len(trace)][1] = "raised"
        /\ Cardinality({k \in DOMAIN trace : trace[k][1] = "raised"}) = 1
        /\ Count(<<"done">>) = 0
        /\ \A x \in Range(instruments) :
               NotReached(x) =>
                   /\ Count(<<"progress", x>>) = 0
                   /\ Count(<<"query_surveys", x>>) = 0
                   /\ Count(<<"retrieve_data", x>>) = 0

\* C10 witness: getALLdata aborted by the failing FEROS retrieval although
\* UVES is in the discovery result
C10_Witness ==
    /\ method = "getALLdata"
    /\ EndsWithFailed("retrieve_data", "FEROS")
    /\ "UVES" \in DOMAIN checkInstruments[1]
    /\ Count(<<"query_surveys", "UVES">>) = 0

----------------------------------------------------------------------------
(* Claims about readList (checked under ListSpec) *)

\* what the loop body leaves in the trace for one star name
Notice(x, fails) ==
    IF fails
    THEN <<<<"banner", x>>, <<"searchStar", x>>, <<"raised", "searchStar">>,
           <<"notfound", x>>>>
    ELSE <<<<"banner", x>>, <<"searchStar", x>>, <<"blank">>>>

RECURSIVE Notices(_, _, _)
Notices(names, fails, k) ==
    IF k > Len(names) THEN <<>>
    ELSE Notice(names[k], fails[k]) \o Notices(names, fails, k + 1)

\* C4: for any catalogue of N star names and any subset of them whose
\* searchStar call fails, readList does not raise, attempts searchStar once
\* for every name in catalogue order, emits exactly one failure notice per
\* failing name and none for the others, and returns all N names.
C4_ReadListToleratesFailures ==
    /\ pc # "raised"
    /\ pc = "returned" =>
           /\ result = file
           /\ \E fails \in [DOMAIN file -> BOOLEAN] :
                  trace = Notices(file, fails, 1)

\* the same statement for the catalogues that do not hold exactly one name
C4_HoldsUnlessOneName ==
    Len(file) # 1 => C4_ReadListToleratesFailures

----------------------------------------------------------------------------
(* Claims about _remove_planet (checked under PlanetSpec) *)

\* the suffix of s that names a planet, <<>> if there is none
PlanetSuffix(s) ==
    IF \E k \in DOMAIN planets : endswith(s, <<" ", planets[k]>>)
    THEN SubSeq(s, Len(s) - 1, Len(s))
    ELSE IF endswith(s, <<".", "0", "1">>) \/ endswith(s, <<".", "0", "2">>)
         THEN SubSeq(s, Len(s) - 2, Len(s))
         ELSE IF endswith(s, <<".", "2">>)
              THEN SubSeq(s, Len(s) - 1, Len(s))
              ELSE <<>>

\* C6: _remove_planet returns the name with exactly its planet suffix
\* removed (a blank and one of b..j or B, or '.01', '.02' or '.2'), every
\* character before the suffix kept, and the name itself when it has none
\* of these suffixes.
C6_RemovesExactlyTheSuffix ==
    pc = "returned" => result \o PlanetSuffix(name) = name

====
